---- MODULE Spec2Model ----
(***************************************************************************)
(* Model of the acquisition-and-cache-refresh engine of the YouTube Canada *)
(* dashboard: trending_videos_canada.py (fetchers, channel resolver, CSV   *)
(* store, staleness check) and the three tabs of app.py that drive them.   *)
(*                                                                         *)
(* Time is counted in whole minutes.  A CSV file is a record               *)
(* [exists, rows]; the header line is implicit in exists = TRUE.  A row    *)
(* keeps the columns video_id, channel_id, channel_country and scraped_at. *)
(* A raw API item is a record [id, snippet, channelId]; id = NoKey and     *)
(* channelId = 0 stand for a key that is absent from the payload.          *)
(***************************************************************************)
EXTENDS Integers, Sequences, FiniteSets, TLC

VARIABLES
  now,           \* the clock, in minutes
  trendingFile,  \* top_ca_videos.csv
  categoryFile,  \* category_cache/category_<id>.csv, per category id
  loadCache,     \* st.cache_data entry of load_trending_data
  catCache,      \* st.cache_data entry of get_available_categories
  session,       \* st.session_state["search_results_<query>"], per query
  pc,            \* the tab the script run executes next
  acc,           \* what the last tab did: key, refresh, remote calls, table shown
  pending,       \* keys fetched at the current minute with nothing stored since
  call           \* one call of a fetcher or of the resolver, and its result

vars == <<now, trendingFile, categoryFile, loadCache, catCache, session,
          pc, acc, pending, call>>

-----------------------------------------------------------------------------
(* Program constants *)

REFRESH_INTERVAL_MINUTES == 60
MAX_VIDEOS == 200
PAGE_SIZE == 50
CHANNEL_BATCH == 50
SEARCH_PAGE == 50
SEARCH_MAX == 200
CATEGORY_MAX == 50
LOAD_TTL_MINUTES == 1
CATEGORIES_TTL_MINUTES == 60

(* Bounds of the model *)

MaxNow == 61
MaxPageItems == 2
MaxTarget == 3
MaxPageSize == 2
MaxFetchPages == 2
MaxFetchItems == 2
MaxUnique == 101
MaxTags == 2
MaxTagLen == 2
MaxCountLen == 2
MaxHours == 1
MaxMinutes == 4
MaxSeconds == 45
MaxDurationLen == 4
MaxRequests == 4

-----------------------------------------------------------------------------
(* Values *)

NoKey == "<absent>"
NoTime == 0 - 1
Unrequested == 0 - 1
VideoIds == {"v1", "v2"}
Categories == {"10", "20"}
Queries == {"cats"}

Min(a, b) == IF a < b THEN a ELSE b

Take(s, n) == SubSeq(s, 1, Min(n, Len(s)))

Range(s) == {s[i] : i \in DOMAIN s}

SeqsUpTo(S, n) == UNION {[1..k -> S] : k \in 0..n}

ChannelOf(vid) == IF vid = "v1" THEN 1 ELSE 2

Vid(vid) == [id |-> vid, snippet |-> TRUE, channelId |-> ChannelOf(vid)]

-----------------------------------------------------------------------------
(* The remote: a server is a sequence of page responses, answered in       *)
(* order; the last response is repeated for every further request.         *)
(* token = 0 is a response without nextPageToken; a response that has one  *)
(* hands out an opaque token of its own (its position).                    *)

Respond(server, n) ==
  LET r == server[Min(n, Len(server))]
  IN  [r EXCEPT !.token = IF r.token = 0 THEN 0 ELSE n]

ErrResponse == [err |-> TRUE, items |-> <<>>, token |-> 0]

Responses(Items, maxItems, Tokens) ==
  {ErrResponse} \cup
  {[err |-> FALSE, items |-> it, token |-> tk] :
      it \in SeqsUpTo(Items, maxItems), tk \in Tokens}

-----------------------------------------------------------------------------
(* fetch_top_videos *)

(* Variant: every request asks for a whole page. *)

videos_list_request_whole_page(max_results, page_size, all_videos, next_page_token) ==
  [maxResults |-> page_size, pageToken |-> next_page_token]

(* youtube.videos().list(..., maxResults=min(page_size, max_results -      *)
(* len(all_videos)), pageToken=next_page_token)                            *)

videos_list_request(max_results, page_size, all_videos, next_page_token) ==
  [maxResults |-> Min(page_size, max_results - Len(all_videos)),
   pageToken  |-> next_page_token]

(* Variant: the loop runs while len(all_videos) <= max_results. *)

RECURSIVE fetch_top_videos_loop_inclusive(_, _, _, _, _, _)
fetch_top_videos_loop_inclusive(server, max_results, page_size, all_videos, next_page_token, requests) ==
  IF ~(Len(all_videos) <= max_results)
  THEN [raised |-> FALSE, videos |-> all_videos, requests |-> requests]
  ELSE LET request  == videos_list_request(max_results, page_size, all_videos, next_page_token)
           reqs     == Append(requests, request)
           response == Respond(server, Len(reqs))
       IN  IF response.err
           THEN [raised |-> TRUE, videos |-> <<>>, requests |-> reqs]
           ELSE IF response.items = <<>>
           THEN [raised |-> FALSE, videos |-> all_videos, requests |-> reqs]
           ELSE IF response.token = 0
           THEN [raised |-> FALSE, videos |-> all_videos \o response.items, requests |-> reqs]
           ELSE fetch_top_videos_loop_inclusive(server, max_results, page_size,
                                                all_videos \o response.items,
                                                response.token, reqs)

RECURSIVE fetch_top_videos_loop(_, _, _, _, _, _)
fetch_top_videos_loop(server, max_results, page_size, all_videos, next_page_token, requests) ==
  IF ~(Len(all_videos) < max_results)
  THEN [raised |-> FALSE, videos |-> all_videos, requests |-> requests]
  ELSE LET request  == videos_list_request(max_results, page_size, all_videos, next_page_token)
           reqs     == Append(requests, request)
           response == Respond(server, Len(reqs))
       IN  IF response.err
           THEN [raised |-> TRUE, videos |-> <<>>, requests |-> reqs]
           ELSE IF response.items = <<>>
           THEN [raised |-> FALSE, videos |-> all_videos, requests |-> reqs]
           ELSE IF response.token = 0
           THEN [raised |-> FALSE, videos |-> all_videos \o response.items, requests |-> reqs]
           ELSE fetch_top_videos_loop(server, max_results, page_size,
                                      all_videos \o response.items, response.token, reqs)

(* Variant: the result is returned without the final slice. *)

fetch_top_videos_unsliced(server, max_results, page_size) ==
  fetch_top_videos_loop(server, max_results, page_size, <<>>, 0, <<>>)

fetch_top_videos(server, max_results, page_size) ==
  LET r == fetch_top_videos_loop(server, max_results, page_size, <<>>, 0, <<>>)
  IN  [r EXCEPT !.videos = Take(r.videos, max_results)]

(* fetch_top_videos_by_category: one request, no pagination *)

fetch_top_videos_by_category(response, max_results) ==
  LET request == [maxResults |-> Min(max_results, 50), pageToken |-> 0]
  IN  IF response.err
      THEN [raised |-> TRUE, videos |-> <<>>, requests |-> <<request>>]
      ELSE [raised |-> FALSE, videos |-> response.items, requests |-> <<request>>]

-----------------------------------------------------------------------------
(* search_videos: the id-collecting loop, then the detail batches.  Of an  *)
(* item of a search response only the video id is read; detail is the     *)
(* videos.list(id=...) calls: "err" raises, "all" returns one item per     *)
(* requested id, "none" returns no item.                                   *)

RECURSIVE search_ids_loop(_, _, _, _, _)
search_ids_loop(server, max_results, all_video_ids, next_page_token, requests) ==
  IF ~(Len(all_video_ids) < max_results)
  THEN [raised |-> FALSE, ids |-> all_video_ids, requests |-> requests]
  ELSE LET request  == [maxResults |-> Min(SEARCH_PAGE, max_results - Len(all_video_ids)),
                        pageToken  |-> next_page_token]
           reqs     == Append(requests, request)
           response == Respond(server, Len(reqs))
           video_ids == [k \in 1..Len(response.items) |-> response.items[k].id]
           extended == all_video_ids \o video_ids
       IN  IF response.err
           THEN [raised |-> TRUE, ids |-> <<>>, requests |-> reqs]
           ELSE IF response.token = 0 \/ video_ids = <<>>
           THEN [raised |-> FALSE, ids |-> extended, requests |-> reqs]
           ELSE search_ids_loop(server, max_results, extended, response.token, reqs)

RECURSIVE search_details_loop(_, _, _, _, _)
search_details_loop(detail, all_video_ids, i, all_videos, nreq) ==
  IF i >= Len(all_video_ids)
  THEN [raised |-> FALSE, videos |-> all_videos, detailRequests |-> nreq]
  ELSE LET batch_ids == SubSeq(all_video_ids, i + 1, Min(i + 50, Len(all_video_ids)))
           items     == IF detail = "all"
                        THEN [k \in 1..Len(batch_ids) |-> Vid(batch_ids[k])]
                        ELSE <<>>
       IN  IF detail = "err"
           THEN [raised |-> TRUE, videos |-> <<>>, detailRequests |-> nreq + 1]
           ELSE search_details_loop(detail, all_video_ids, i + 50,
                                    all_videos \o items, nreq + 1)

search_videos(server, detail, max_results) ==
  LET l == search_ids_loop(server, max_results, <<>>, 0, <<>>)
  IN  IF l.raised
      THEN [raised |-> TRUE, videos |-> <<>>, requests |-> l.requests, detailRequests |-> 0]
      ELSE IF l.ids = <<>>
      THEN [raised |-> FALSE, videos |-> <<>>, requests |-> l.requests, detailRequests |-> 0]
      ELSE LET d == search_details_loop(detail, l.ids, 0, <<>>, 0)
           IN  [raised |-> d.raised, videos |-> d.videos,
                requests |-> l.requests, detailRequests |-> d.detailRequests]

-----------------------------------------------------------------------------
(* fetch_channels_info.  chServer is the behaviour of channels.list:       *)
(* errAt = j makes the j-th batch request raise (0: none raises), omit is  *)
(* the set of ids the remote leaves out, extra = TRUE makes every response *)
(* carry an unrequested channel,   country is the country it reports.     *)

(* dict.fromkeys keeps every key at the place of its first occurrence:    *)
(* the ids among channel_ids[lo..hi] that do not occur earlier in          *)
(* channel_ids, in order.  The range is halved, which keeps the nesting    *)
(* of the evaluation shallow for lists of some hundred ids.                *)

RECURSIVE unique_ids_between(_, _, _)
unique_ids_between(channel_ids, lo, hi) ==
  IF lo > hi THEN <<>>
  ELSE IF lo = hi
  THEN IF \E j \in 1..(lo - 1) : channel_ids[j] = channel_ids[lo]
       THEN <<>>
       ELSE <<channel_ids[lo]>>
  ELSE LET mid == (lo + hi) \div 2
       IN  unique_ids_between(channel_ids, lo, mid)
             \o unique_ids_between(channel_ids, mid + 1, hi)

(* Variant: the ids are batched without deduplication. *)

unique_ids_of_all(channel_ids) == channel_ids

unique_ids_of(channel_ids) == unique_ids_between(channel_ids, 1, Len(channel_ids))

batch_starts(n) == {i \in 0..(n - 1) : i % CHANNEL_BATCH = 0}

channels_response(chServer, batch_ids) ==
  (Range(batch_ids) \ chServer.omit) \cup (IF chServer.extra THEN {Unrequested} ELSE {})

RECURSIVE fetch_channels_loop(_, _, _, _, _)
fetch_channels_loop(chServer, unique_ids, i, result, requests) ==
  IF i \notin batch_starts(Len(unique_ids))
  THEN [raised |-> FALSE, keys |-> result, country |-> chServer.country, requests |-> requests]
  ELSE LET batch_ids == SubSeq(unique_ids, i + 1, Min(i + CHANNEL_BATCH, Len(unique_ids)))
           reqs      == Append(requests, batch_ids)
       IN  IF chServer.errAt = Len(reqs)
           THEN [raised |-> TRUE, keys |-> {}, country |-> "", requests |-> reqs]
           ELSE fetch_channels_loop(chServer, unique_ids, i + CHANNEL_BATCH,
                                    result \cup channels_response(chServer, batch_ids), reqs)

fetch_channels_info(chServer, channel_ids) ==
  fetch_channels_loop(chServer, unique_ids_of(channel_ids), 0, {}, <<>>)

-----------------------------------------------------------------------------
(* CSV helpers of trending_videos_canada.py *)

NoFile == [exists |-> FALSE, rows |-> <<>>]

get_last_scrape_time(file) ==
  IF ~file.exists THEN NoTime
  ELSE IF file.rows = <<>> THEN NoTime
  ELSE file.rows[1].scraped_at

(* Variant: a file is refreshed from the threshold age on (>=). *)

should_refresh_data_from_threshold(file, t) ==
  LET last_scrape == get_last_scrape_time(file)
  IN  IF last_scrape = NoTime THEN TRUE
      ELSE t - last_scrape >= REFRESH_INTERVAL_MINUTES

should_refresh_data(file, t) ==
  LET last_scrape == get_last_scrape_time(file)
  IN  IF last_scrape = NoTime THEN TRUE
      ELSE t - last_scrape > REFRESH_INTERVAL_MINUTES

(* channel_ids = [v["snippet"]["channelId"] for v in videos if "snippet" in v] *)

channel_ids_raises(videos) ==
  \E i \in 1..Len(videos) : videos[i].snippet /\ videos[i].channelId = 0

channel_ids_of(videos) ==
  LET withSnippet == SelectSeq(videos, LAMBDA v : v.snippet)
  IN  [i \in 1..Len(withSnippet) |-> withSnippet[i].channelId]

(* One row of the table; ch_id = 0 is the empty string. *)

video_row(v, channel_info) ==
  LET ch_id == IF v.snippet THEN v.channelId ELSE 0
  IN  [video_id        |-> v.id,
       channel_id      |-> ch_id,
       channel_country |-> IF ch_id \in channel_info.keys
                           THEN channel_info.country ELSE ""]

FirstBad(videos) ==
  IF \E i \in 1..Len(videos) : videos[i].id = NoKey
  THEN CHOOSE i \in 1..Len(videos) :
         /\ videos[i].id = NoKey
         /\ \A j \in 1..(i - 1) : videos[j].id # NoKey
  ELSE 0

Stamp(row, t) ==
  [video_id |-> row.video_id, channel_id |-> row.channel_id,
   channel_country |-> row.channel_country, scraped_at |-> t]

(* save_to_csv opens the file for writing (which truncates it), writes    *)
(* the header and then builds and writes one row per video; v["id"] of a  *)
(* video without id raises after the rows before it were written.         *)

save_to_csv(videos, channel_info, t) ==
  LET bad     == FirstBad(videos)
      written == IF bad = 0 THEN Len(videos) ELSE bad - 1
  IN  [raised |-> bad # 0,
       file   |-> [exists |-> TRUE,
                   rows   |-> [i \in 1..written |->
                                 Stamp(video_row(videos[i], channel_info), t)]]]

(* videos_to_dataframe builds every row in memory before returning. *)

videos_to_dataframe(videos, channel_info) ==
  IF FirstBad(videos) # 0
  THEN [raised |-> TRUE, rows |-> <<>>]
  ELSE [raised |-> FALSE,
        rows   |-> [i \in 1..Len(videos) |-> video_row(videos[i], channel_info)]]

(* df["channel_country"].fillna("Unknown").replace("", "Unknown") *)

fill_country(rows) ==
  [i \in 1..Len(rows) |->
     [rows[i] EXCEPT !.channel_country = IF @ = "" THEN "Unknown" ELSE @]]

(* map_country_codes *)

map_country_codes(rows) ==
  [i \in 1..Len(rows) |->
     [rows[i] EXCEPT !.channel_country = IF @ = "CA" THEN "Canada" ELSE @]]

-----------------------------------------------------------------------------
(* fetch_and_save_trending.  A scenario is what the environment does       *)
(* during one refresh: client = FALSE is a missing API key, cats = FALSE   *)
(* a failing videoCategories.list call, server the pages of videos.list    *)
(* (or search.list), detail the videos.list(id=...) calls of a search, ch  *)
(* the channels.list calls.  The result says whether the refresh raised,   *)
(* which remote calls it issued and, when wrote = TRUE, what the CSV file  *)
(* holds afterwards (wrote = FALSE: the file was never opened).            *)

Calls(kind, n) == IF n > 0 THEN {kind} ELSE {}

fetch_and_save_trending(scen, t) ==
  IF ~scen.client
  THEN [raised |-> TRUE, kind |-> "config", wrote |-> FALSE, file |-> NoFile, calls |-> {}]
  ELSE IF ~scen.cats
  THEN [raised |-> TRUE, kind |-> "categories", wrote |-> FALSE, file |-> NoFile,
        calls |-> {"videoCategories.list"}]
  ELSE
  LET f      == fetch_top_videos(scen.server, MAX_VIDEOS, PAGE_SIZE)
      calls1 == {"videoCategories.list"} \cup Calls("videos.list", Len(f.requests))
  IN  IF f.raised
      THEN [raised |-> TRUE, kind |-> "remote", wrote |-> FALSE, file |-> NoFile,
            calls |-> calls1]
      ELSE IF channel_ids_raises(f.videos)
      THEN [raised |-> TRUE, kind |-> "shape", wrote |-> FALSE, file |-> NoFile,
            calls |-> calls1]
      ELSE
      LET c      == fetch_channels_info(scen.ch, channel_ids_of(f.videos))
          calls2 == calls1 \cup Calls("channels.list", Len(c.requests))
      IN  IF c.raised
          THEN [raised |-> TRUE, kind |-> "remote", wrote |-> FALSE, file |-> NoFile,
                calls |-> calls2]
          ELSE
          LET s == save_to_csv(f.videos, c, t)
          IN  [raised |-> s.raised,
               kind   |-> IF s.raised THEN "shape" ELSE "ok",
               wrote  |-> TRUE,
               file   |-> s.file,
               calls  |-> calls2]

-----------------------------------------------------------------------------
(* Category cache helpers of app.py *)

(* Variant: every category is kept in the file of category "10". *)

get_category_csv_path_shared(category_id) == "10"

(* os.path.join(CATEGORY_CACHE_DIR, f"category_{category_id}.csv"): the   *)
(* file of a category, named in categoryFile by the id its path carries.   *)

get_category_csv_path(category_id) == category_id

load_category_from_cache(file) ==
  IF file.exists
  THEN [df         |-> fill_country(file.rows),
        scraped_at |-> IF Len(file.rows) > 0 THEN file.rows[1].scraped_at ELSE NoTime]
  ELSE [df |-> <<>>, scraped_at |-> NoTime]

save_category_to_cache(rows, t) ==
  [exists |-> TRUE, rows |-> [i \in 1..Len(rows) |-> Stamp(rows[i], t)]]

(* Variant: the age in seconds is compared with the limit in minutes. *)

is_category_cache_stale_seconds(scraped_at, t) ==
  IF scraped_at = NoTime THEN TRUE
  ELSE (t - scraped_at) * 60 > REFRESH_INTERVAL_MINUTES

is_category_cache_stale(scraped_at, t) ==
  IF scraped_at = NoTime THEN TRUE
  ELSE t - scraped_at > REFRESH_INTERVAL_MINUTES

(* The try block of tab_by_category: fetch, resolve, normalise, save.     *)
(* assigned says whether cat_df was assigned (on an exception it keeps    *)
(* the table loaded from the cache).                                       *)

category_refresh(scen, t) ==
  LET Raised(kind, calls) ==
        [raised |-> TRUE, kind |-> kind, wrote |-> FALSE, file |-> NoFile,
         assigned |-> FALSE, cat_df |-> <<>>, calls |-> calls]
  IN
  IF ~scen.client
  THEN Raised("config", {})
  ELSE
  LET f == fetch_top_videos_by_category(Respond(scen.server, 1), CATEGORY_MAX)
  IN  IF f.raised
      THEN Raised("remote", {"videos.list"})
      ELSE IF f.videos = <<>>
      THEN [raised |-> FALSE, kind |-> "empty", wrote |-> FALSE, file |-> NoFile,
            assigned |-> TRUE, cat_df |-> <<>>, calls |-> {"videos.list"}]
      ELSE IF channel_ids_raises(f.videos)
      THEN Raised("shape", {"videos.list"})
      ELSE
      LET c     == fetch_channels_info(scen.ch, channel_ids_of(f.videos))
          calls == {"videos.list"} \cup Calls("channels.list", Len(c.requests))
          d     == videos_to_dataframe(f.videos, c)
          saved == save_category_to_cache(fill_country(d.rows), t)
      IN  IF c.raised
          THEN Raised("remote", calls)
          ELSE IF d.raised
          THEN Raised("shape", calls)
          ELSE [raised |-> FALSE, kind |-> "ok", wrote |-> TRUE, file |-> saved,
                assigned |-> TRUE, cat_df |-> saved.rows, calls |-> calls]

-----------------------------------------------------------------------------
(* The try block of tab_search; entry is what it stores under the key. *)

search_refresh(scen) ==
  IF ~scen.client
  THEN [raised |-> TRUE, kind |-> "config", entry |-> <<>>, calls |-> {}]
  ELSE IF ~scen.cats
  THEN [raised |-> TRUE, kind |-> "categories", entry |-> <<>>,
        calls |-> {"videoCategories.list"}]
  ELSE
  LET f      == search_videos(scen.server, scen.detail, SEARCH_MAX)
      calls1 == {"videoCategories.list"} \cup Calls("search.list", Len(f.requests))
                  \cup Calls("videos.list", f.detailRequests)
  IN  IF f.raised
      THEN [raised |-> TRUE, kind |-> "remote", entry |-> <<>>, calls |-> calls1]
      ELSE IF f.videos = <<>>
      THEN [raised |-> FALSE, kind |-> "empty", entry |-> <<>>, calls |-> calls1]
      ELSE IF channel_ids_raises(f.videos)
      THEN [raised |-> TRUE, kind |-> "shape", entry |-> <<>>, calls |-> calls1]
      ELSE
      LET c      == fetch_channels_info(scen.ch, channel_ids_of(f.videos))
          calls2 == calls1 \cup Calls("channels.list", Len(c.requests))
          d      == videos_to_dataframe(f.videos, c)
      IN  IF c.raised
          THEN [raised |-> TRUE, kind |-> "remote", entry |-> <<>>, calls |-> calls2]
          ELSE IF d.raised
          THEN [raised |-> TRUE, kind |-> "shape", entry |-> <<>>, calls |-> calls2]
          ELSE [raised |-> FALSE, kind |-> "ok",
                entry |-> map_country_codes(fill_country(d.rows)), calls |-> calls2]

-----------------------------------------------------------------------------
(* Environment behaviours drawn for the application.  The remote answers  *)
(* a listing with one page that ends the list: it raises, or carries up   *)
(* to MaxPageItems items and no continuation token.                       *)

AppServers(Items) == {<<r>> : r \in Responses(Items, MaxPageItems, {0})}

RawItems ==
  {Vid("v1"),
   [id |-> NoKey, snippet |-> TRUE, channelId |-> 1],
   [id |-> "v1", snippet |-> TRUE, channelId |-> 0]}

AppChServers ==
  {[errAt |-> e, omit |-> o, extra |-> FALSE, country |-> "CA"] :
      e \in {0, 1}, o \in {{}}}

NoScenario ==
  [client |-> FALSE, cats |-> FALSE, server |-> <<ErrResponse>>, detail |-> "err",
   ch |-> [errAt |-> 1, omit |-> {}, extra |-> FALSE, country |-> ""]]

TrendingScenarios ==
  {[NoScenario EXCEPT !.client = TRUE],
   NoScenario} \cup
  {[client |-> TRUE, cats |-> TRUE, server |-> s, detail |-> "err", ch |-> c] :
      s \in AppServers(RawItems), c \in AppChServers}

CategoryScenarios ==
  {NoScenario} \cup
  {[client |-> TRUE, cats |-> TRUE, server |-> s, detail |-> "err", ch |-> c] :
      s \in AppServers(RawItems), c \in AppChServers}

SearchScenarios ==
  {[NoScenario EXCEPT !.client = TRUE],
   NoScenario} \cup
  {[client |-> TRUE, cats |-> TRUE, server |-> s, detail |-> d, ch |-> c] :
      s \in AppServers({Vid("v1")}),
      d \in {"err", "all", "none"}, c \in AppChServers}

(* The clock readings drawn are the multiples of the refresh interval and *)
(* the minute after each, so that ages of 0, 1, 59, 60 and 61 minutes      *)
(* occur; and what a refresh can do at each of them, over all scenarios.   *)

Instants == {t \in 0..MaxNow : t % REFRESH_INTERVAL_MINUTES <= 1}

TrendingRuns ==
  [t \in Instants |-> {fetch_and_save_trending(scen, t) : scen \in TrendingScenarios}]

CategoryRuns ==
  [t \in Instants |-> {category_refresh(scen, t) : scen \in CategoryScenarios}]

SearchRuns == {search_refresh(scen) : scen \in SearchScenarios}

-----------------------------------------------------------------------------
(* State of the application *)

NoLoadCache == [valid |-> FALSE, rows |-> <<>>, at |-> NoTime]
NoCatCache == [valid |-> FALSE, map |-> {}, at |-> NoTime]
NoEntry == [present |-> FALSE, rows |-> <<>>]
NoAccess ==
  [tab |-> "none", key |-> "", attempted |-> FALSE, kind |-> "none",
   calls |-> {}, served |-> <<>>, warning |-> FALSE]

SUPPORTED_TRENDING_CATEGORY_IDS ==
  {"1", "2", "10", "15", "17", "20", "22", "23", "24", "25", "26", "28"}

AppInit ==
  /\ now = 0
  /\ trendingFile = NoFile
  /\ categoryFile = [c \in Categories |-> NoFile]
  /\ loadCache = NoLoadCache
  /\ catCache = NoCatCache
  /\ session = [q \in Queries |-> NoEntry]
  /\ pc = "trending"
  /\ acc = NoAccess
  /\ pending = {}

Init ==
  /\ AppInit
  /\ call = [fn |-> "none"]

(* Time passes between script runs. *)

Tick ==
  /\ \E t \in Instants :
       /\ t > now
       /\ now' = t
  /\ pending' = {}
  /\ UNCHANGED <<trendingFile, categoryFile, loadCache, catCache, session, pc, acc, call>>

(* pending after an access to key that did or did not try a refresh *)

Pending(key, attempted, stored) ==
  IF ~attempted THEN pending
  ELSE IF stored THEN pending \ {key}
  ELSE pending \cup {key}

(* load_trending_data behind st.cache_data(ttl=60): the rows it returns. *)

load_trending_data(file) ==
  IF file.exists THEN fill_country(file.rows) ELSE <<>>

(* with tab_trending: the refresh check, the refresh and the load.  An    *)
(* empty table ends the script run (st.stop), so the next tab to run is    *)
(* tab_trending again.                                                     *)

TabTrending ==
  /\ pc = "trending"
  /\ LET refresh == should_refresh_data(trendingFile, now)
         NoRun   == [raised |-> FALSE, kind |-> "none", wrote |-> FALSE,
                     file |-> NoFile, calls |-> {}]
     IN  \E r \in IF refresh THEN TrendingRuns[now] ELSE {NoRun} :
           LET file    == IF r.wrote THEN r.file ELSE trendingFile
               cleared == refresh /\ ~r.raised
               cache   == IF cleared THEN NoLoadCache ELSE loadCache
               hit     == cache.valid /\ now - cache.at < LOAD_TTL_MINUTES
               df      == IF hit THEN cache.rows ELSE load_trending_data(file)
           IN  /\ trendingFile' = file
               /\ loadCache' = IF hit THEN cache
                               ELSE [valid |-> TRUE, rows |-> df, at |-> now]
               /\ catCache' = IF cleared THEN NoCatCache ELSE catCache
               /\ acc' = [tab |-> "trending", key |-> "trending",
                          attempted |-> refresh, kind |-> r.kind,
                          calls |-> r.calls, served |-> df, warning |-> r.raised]
               /\ pending' = Pending("trending", refresh, r.wrote)
               /\ pc' = IF df = <<>> THEN "trending" ELSE "category"
  /\ UNCHANGED <<now, categoryFile, session, call>>

(* with tab_by_category: get_available_categories behind                  *)
(* st.cache_data(ttl=3600), the category chosen in the selectbox, the      *)
(* cache read, the staleness check and the refresh.                        *)

TabByCategory ==
  /\ pc = "category"
  /\ LET hit == catCache.valid /\ now - catCache.at < CATEGORIES_TTL_MINUTES
     IN  \E listOk \in IF hit THEN {TRUE} ELSE BOOLEAN :
           LET categories_map == IF hit THEN catCache.map
                                 ELSE IF listOk THEN Categories ELSE {}
               listCalls      == IF hit THEN {} ELSE {"videoCategories.list"}
               supported      == categories_map \cap SUPPORTED_TRENDING_CATEGORY_IDS
           IN  /\ catCache' = IF hit THEN catCache
                              ELSE [valid |-> TRUE, map |-> categories_map, at |-> now]
               /\ IF supported = {}
                  THEN /\ acc' = [tab |-> "category", key |-> "", attempted |-> FALSE,
                                  kind |-> "no_categories", calls |-> listCalls,
                                  served |-> <<>>, warning |-> TRUE]
                       /\ UNCHANGED <<categoryFile, pending>>
                  ELSE \E category_id \in supported :
                         LET loaded == load_category_from_cache(
                                         categoryFile[get_category_csv_path(category_id)])
                             need   == \/ loaded.df = <<>>
                                       \/ is_category_cache_stale(loaded.scraped_at, now)
                             NoRun  == [raised |-> FALSE, kind |-> "none", wrote |-> FALSE,
                                        file |-> NoFile, assigned |-> FALSE,
                                        cat_df |-> <<>>, calls |-> {}]
                         IN  \E r \in IF need THEN CategoryRuns[now] ELSE {NoRun} :
                               /\ categoryFile' =
                                    IF r.wrote
                                    THEN [categoryFile EXCEPT
                                            ![get_category_csv_path(category_id)] = r.file]
                                    ELSE categoryFile
                               /\ acc' = [tab |-> "category", key |-> category_id,
                                          attempted |-> need, kind |-> r.kind,
                                          calls |-> listCalls \cup r.calls,
                                          served |-> IF r.assigned THEN r.cat_df
                                                     ELSE loaded.df,
                                          warning |-> r.raised]
                               /\ pending' = Pending(category_id, need, r.wrote)
  /\ pc' = "search"
  /\ UNCHANGED <<now, trendingFile, loadCache, session, call>>

(* if cache_key not in st.session_state *)

(* Variant: an entry that holds no rows counts as missing. *)

cache_key_missing_or_empty(entries, search_query) ==
  ~entries[search_query].present \/ entries[search_query].rows = <<>>

cache_key_missing(entries, search_query) ==
  ~entries[search_query].present

(* The body of tab_search for the query typed in the text input: the      *)
(* session cache under "search_results_<query>".                           *)

SearchTab(search_query) ==
  IF search_query = ""
  THEN /\ acc' = [NoAccess EXCEPT !.tab = "search"]
       /\ UNCHANGED <<session, pending>>
  ELSE LET miss  == cache_key_missing(session, search_query)
           NoRun == [raised |-> FALSE, kind |-> "none",
                     entry |-> session[search_query].rows, calls |-> {}]
       IN  \E r \in IF miss THEN SearchRuns ELSE {NoRun} :
             /\ session' = IF miss
                           THEN [session EXCEPT ![search_query] =
                                   [present |-> TRUE, rows |-> r.entry]]
                           ELSE session
             /\ acc' = [tab |-> "search", key |-> search_query,
                        attempted |-> miss, kind |-> r.kind,
                        calls |-> r.calls, served |-> r.entry,
                        warning |-> r.raised]
             /\ pending' = Pending(search_query, miss, miss)

(* with tab_search, the last tab of a script run *)

TabSearch ==
  /\ pc = "search"
  /\ \E search_query \in Queries \cup {""} : SearchTab(search_query)
  /\ pc' = "trending"
  /\ UNCHANGED <<now, trendingFile, categoryFile, loadCache, catCache, call>>

Next ==
  \/ Tick
  \/ TabTrending
  \/ TabByCategory
  \/ TabSearch

Spec == Init /\ [][Next]_vars

-----------------------------------------------------------------------------
(* The paginated fetchers on their own: one call with drawn arguments and *)
(* a drawn server, whose pages may be short, empty, overfull or raise.    *)

NoResult == [raised |-> FALSE, videos |-> <<>>, requests |-> <<>>, detailRequests |-> 0]

(* A page of k items that starts with the given video and alternates       *)
(* between the two, so that a video can come back on a later page.         *)
PageItems(first, k) ==
  [j \in 1..k |-> IF j % 2 = 1 THEN Vid(first)
                              ELSE Vid(CHOOSE v \in VideoIds : v # first)]

FetchResponses ==
  {ErrResponse} \cup
  {[err |-> FALSE, items |-> PageItems(f, k), token |-> tk] :
      f \in VideoIds, k \in 0..MaxFetchItems, tk \in {0, 1}}

FetchServers == {s \in SeqsUpTo(FetchResponses, MaxFetchPages) : Len(s) >= 1}

InitFetch ==
  /\ AppInit
  /\ \E s \in FetchServers, m \in 0..MaxTarget :
        \/ \E ps \in 1..MaxPageSize :
              call = [fn |-> "fetch_top_videos", server |-> s, detail |-> "all",
                      max_results |-> m, page_size |-> ps, done |-> FALSE,
                      res |-> NoResult]
        \/ \E d \in {"err", "all", "none"} :
              call = [fn |-> "search_videos", server |-> s, detail |-> d,
                      max_results |-> m, page_size |-> SEARCH_PAGE, done |-> FALSE,
                      res |-> NoResult]

CallFetchTopVideos ==
  /\ call.fn = "fetch_top_videos"
  /\ ~call.done
  /\ LET r == fetch_top_videos(call.server, call.max_results, call.page_size)
     IN  call' = [call EXCEPT !.done = TRUE,
                              !.res = [raised |-> r.raised, videos |-> r.videos,
                                       requests |-> r.requests, detailRequests |-> 0]]
  /\ UNCHANGED <<now, trendingFile, categoryFile, loadCache, catCache, session,
                 pc, acc, pending>>

CallSearchVideos ==
  /\ call.fn = "search_videos"
  /\ ~call.done
  /\ call' = [call EXCEPT !.done = TRUE,
                          !.res = search_videos(call.server, call.detail, call.max_results)]
  /\ UNCHANGED <<now, trendingFile, categoryFile, loadCache, catCache, session,
                 pc, acc, pending>>

NextFetch ==
  \/ CallFetchTopVideos
  \/ CallSearchVideos

SpecFetch == InitFetch /\ [][NextFetch]_vars

-----------------------------------------------------------------------------
(* The two pagination loops, one iteration at a time, against a remote    *)
(* that answers every request as it likes: any page, with or without a    *)
(* token, or an exception.  call.items is all_videos (all_video_ids in    *)
(* search_videos); call.pc is "while" at the loop test and "done" once    *)
(* the loop is left.  A request is issued only while fewer than           *)
(* MaxRequests have been.                                                  *)

InitLoop ==
  /\ AppInit
  /\ \E m \in 0..MaxTarget :
        \/ \E ps \in 1..MaxPageSize :
              call = [fn |-> "loop", of |-> "fetch_top_videos", max_results |-> m,
                      page_size |-> ps, items |-> <<>>, next_page_token |-> 0,
                      requests |-> <<>>, pc |-> "while", raised |-> FALSE]
        \/ call = [fn |-> "loop", of |-> "search_videos", max_results |-> m,
                   page_size |-> SEARCH_PAGE, items |-> <<>>, next_page_token |-> 0,
                   requests |-> <<>>, pc |-> "while", raised |-> FALSE]

(* nextPageToken of the response to the n-th request *)
TokenOf(response, n) == IF response.token = 0 THEN 0 ELSE n

(* fetch_top_videos: the loop test and one pass through the loop body *)
FetchTopVideosIteration ==
  /\ call.fn = "loop" /\ call.of = "fetch_top_videos" /\ call.pc = "while"
  /\ IF ~(Len(call.items) < call.max_results)
     THEN call' = [call EXCEPT !.pc = "done"]
     ELSE /\ Len(call.requests) < MaxRequests
          /\ \E response \in FetchResponses :
               LET request == videos_list_request(call.max_results, call.page_size,
                                                  call.items, call.next_page_token)
                   reqs    == Append(call.requests, request)
                   next_page_token == TokenOf(response, Len(reqs))
               IN  call' =
                     IF response.err
                     THEN [call EXCEPT !.requests = reqs, !.raised = TRUE, !.pc = "done"]
                     ELSE IF response.items = <<>>
                     THEN [call EXCEPT !.requests = reqs, !.pc = "done"]
                     ELSE IF next_page_token = 0
                     THEN [call EXCEPT !.requests = reqs,
                                       !.items = call.items \o response.items,
                                       !.next_page_token = 0, !.pc = "done"]
                     ELSE [call EXCEPT !.requests = reqs,
                                       !.items = call.items \o response.items,
                                       !.next_page_token = next_page_token]
  /\ UNCHANGED <<now, trendingFile, categoryFile, loadCache, catCache, session,
                 pc, acc, pending>>

(* Variant: the loop is left only when a response has no token. *)

search_loop_breaks_without_token(next_page_token, video_ids) ==
  next_page_token = 0

(* if not next_page_token or not video_ids: break *)

search_loop_breaks(next_page_token, video_ids) ==
  next_page_token = 0 \/ video_ids = <<>>

(* search_videos: the loop test and one pass through the body of the      *)
(* id-collecting loop                                                      *)
SearchIdsIteration ==
  /\ call.fn = "loop" /\ call.of = "search_videos" /\ call.pc = "while"
  /\ IF ~(Len(call.items) < call.max_results)
     THEN call' = [call EXCEPT !.pc = "done"]
     ELSE /\ Len(call.requests) < MaxRequests
          /\ \E response \in FetchResponses :
               LET request == [maxResults |-> Min(SEARCH_PAGE,
                                                  call.max_results - Len(call.items)),
                               pageToken  |-> call.next_page_token]
                   reqs    == Append(call.requests, request)
                   video_ids == [k \in 1..Len(response.items) |-> response.items[k].id]
                   next_page_token == TokenOf(response, Len(reqs))
               IN  call' =
                     IF response.err
                     THEN [call EXCEPT !.requests = reqs, !.raised = TRUE, !.pc = "done"]
                     ELSE IF search_loop_breaks(next_page_token, video_ids)
                     THEN [call EXCEPT !.requests = reqs,
                                       !.items = call.items \o video_ids,
                                       !.next_page_token = next_page_token,
                                       !.pc = "done"]
                     ELSE [call EXCEPT !.requests = reqs,
                                       !.items = call.items \o video_ids,
                                       !.next_page_token = next_page_token]
  /\ UNCHANGED <<now, trendingFile, categoryFile, loadCache, catCache, session,
                 pc, acc, pending>>

NextLoop ==
  \/ FetchTopVideosIteration
  \/ SearchIdsIteration

(* Every call of the remote returns, so the loop always takes its next    *)
(* step.                                                                   *)
SpecLoop == InitLoop /\ [][NextLoop]_vars /\ WF_vars(NextLoop)

-----------------------------------------------------------------------------
(* The channel resolver on its own.  The ids drawn are 1..u, in one of    *)
(* four arrangements that repeat some of them.                             *)

ChannelIdLists ==
  UNION {{[i \in 1..u |-> i],
          [i \in 1..(u + Min(u, 2)) |-> IF i <= u THEN i ELSE i - u],
          [i \in 1..(2 * u) |-> (i + 1) \div 2],
          [i \in 1..(u + Min(u, 1)) |-> IF i <= u THEN u + 1 - i ELSE u]} :
         u \in 0..MaxUnique}

ChServers ==
  {[errAt |-> e, omit |-> o, extra |-> x, country |-> "CA"] :
      e \in {0, 2}, o \in {{}, {1}}, x \in BOOLEAN}

NoChannels == [raised |-> FALSE, keys |-> {}, country |-> "", requests |-> <<>>]

InitChannels ==
  /\ AppInit
  /\ \E ids \in ChannelIdLists, c \in ChServers :
        call = [fn |-> "fetch_channels_info", channel_ids |-> ids, chServer |-> c,
                done |-> FALSE, res |-> NoChannels]

CallFetchChannelsInfo ==
  /\ call.fn = "fetch_channels_info"
  /\ ~call.done
  /\ call' = [call EXCEPT !.done = TRUE,
                          !.res = fetch_channels_info(call.chServer, call.channel_ids)]
  /\ UNCHANGED <<now, trendingFile, categoryFile, loadCache, catCache, session,
                 pc, acc, pending>>

NextChannels == CallFetchChannelsInfo

SpecChannels == InitChannels /\ [][NextChannels]_vars

-----------------------------------------------------------------------------
(* Text.  A string is the sequence of its characters.                      *)

Chars(Alphabet, n) == SeqsUpTo(Alphabet, n)

(* Decimal numerals: int(text) and str(n) *)

Digits == <<"0", "1", "2", "3", "4", "5", "6", "7", "8", "9">>

IsDigit(c) == \E d \in 1..10 : Digits[d] = c

DigitValue(c) == (CHOOSE d \in 1..10 : Digits[d] = c) - 1

IsDecimal(text) == text # <<>> /\ \A i \in 1..Len(text) : IsDigit(text[i])

RECURSIVE TextToInt(_, _)
TextToInt(text, n) ==
  IF n = 0 THEN 0 ELSE 10 * TextToInt(text, n - 1) + DigitValue(text[n])

RECURSIVE IntToText(_)
IntToText(n) ==
  IF n < 10 THEN <<Digits[n + 1]>> ELSE IntToText(n \div 10) \o <<Digits[(n % 10) + 1]>>

(* "|".join(tags) if tags else "" *)

RECURSIVE join_tags(_, _)
join_tags(tags, n) ==
  IF n = 0 THEN <<>>
  ELSE IF n = 1 THEN tags[1]
  ELSE join_tags(tags, n - 1) \o <<"|">> \o tags[n]

(* Variant: the tags are concatenated without a separator. *)

tags_str_unseparated(tags) ==
  IF tags = <<>> THEN <<>>
  ELSE LET RECURSIVE cat(_)
           cat(n) == IF n = 0 THEN <<>> ELSE cat(n - 1) \o tags[n]
       IN  cat(Len(tags))

tags_str(tags) ==
  IF tags = <<>> THEN <<>> ELSE join_tags(tags, Len(tags))

(* x.split("|"): the pieces between the separators, empty ones included *)

RECURSIVE split_from(_, _, _, _)
split_from(x, i, piece, pieces) ==
  IF i > Len(x) THEN Append(pieces, piece)
  ELSE IF x[i] = "|" THEN split_from(x, i + 1, <<>>, Append(pieces, piece))
  ELSE split_from(x, i + 1, Append(piece, x[i]), pieces)

(* lambda x: x.split("|") if x else [] *)

split_tags(x) ==
  IF x = <<>> THEN <<>> ELSE split_from(x, 1, <<>>, <<>>)

-----------------------------------------------------------------------------
(* Properties of the paginated fetchers (checked under SpecFetch) *)

Ceil(a, b) == (a + b - 1) \div b

RECURSIVE ReceivedItems(_, _)
ReceivedItems(server, n) ==
  IF n = 0 THEN <<>> ELSE ReceivedItems(server, n - 1) \o Respond(server, n).items

(* Every response before the last carried at least the items asked for. *)
FullPages ==
  \A i \in 1..(Len(call.res.requests) - 1) :
     Len(Respond(call.server, i).items) >= call.res.requests[i].maxResults

(* C7 as stated: a paginated fetch never issues more than                 *)
(* ceil(targetCount / pageSize) page requests, whatever the server does.  *)
C7_RequestsWithinCeiling ==
  call.done => Len(call.res.requests) <= Ceil(call.max_results, call.page_size)

(* C7, amended: a paginated fetch never issues more than targetCount page *)
(* requests, and no more than ceil(targetCount / pageSize) when every     *)
(* response before the last carries at least the items asked for.         *)
C7_RequestsWithinTarget ==
  call.done =>
    /\ Len(call.res.requests) <= call.max_results
    /\ FullPages => Len(call.res.requests) <= Ceil(call.max_results, call.page_size)

(* A fetch that met short pages and used one request per item. *)
C7_Witness ==
  /\ call.done
  /\ ~call.res.raised
  /\ ~FullPages
  /\ Len(call.res.requests) = call.max_results
  /\ Len(call.res.requests) > Ceil(call.max_results, call.page_size)

(* C8: fetch_top_videos returns at most max_results records, namely the   *)
(* items of the received pages in the order received, cut to the first    *)
(* max_results.                                                            *)
C8_ResultIsPrefixOfPages ==
  (call.done /\ call.fn = "fetch_top_videos" /\ ~call.res.raised) =>
    /\ Len(call.res.videos) <= call.max_results
    /\ call.res.videos =
         Take(ReceivedItems(call.server, Len(call.res.requests)), call.max_results)

(* A fetch over two pages that received more than max_results items and   *)
(* returned two different videos.                                          *)
C8_Witness ==
  /\ call.done
  /\ call.fn = "fetch_top_videos"
  /\ ~call.res.raised
  /\ Len(call.res.requests) >= 2
  /\ Len(ReceivedItems(call.server, Len(call.res.requests))) > call.max_results
  /\ Len(call.res.videos) >= 2
  /\ call.res.videos[1] # call.res.videos[2]

-----------------------------------------------------------------------------
(* Properties of the channel resolver (checked under SpecChannels) *)

FirstPos(ids, x) ==
  LET at == {i \in DOMAIN ids : ids[i] = x}
  IN  CHOOSE i \in at : \A j \in at : i <= j

RECURSIVE Flatten(_, _)
Flatten(batches, n) ==
  IF n = 0 THEN <<>> ELSE Flatten(batches, n - 1) \o batches[n]

(* C10: a call of fetch_channels_info that returns has issued exactly     *)
(* ceil(u / 50) requests for u distinct ids, every distinct id is in      *)
(* exactly one batch, batches hold at most 50 ids in first-seen order,    *)
(* and when the remote returns only requested ids the mapping has at most *)
(* u keys, the missing ones being ids the remote omitted.                 *)
C10_DedupAndBatch ==
  (call.done /\ ~call.res.raised) =>
    LET ids  == call.channel_ids
        U    == Range(ids)
        u    == Cardinality(U)
        reqs == call.res.requests
        flat == Flatten(reqs, Len(reqs))
    IN  /\ Len(reqs) = (u + 49) \div 50
        /\ \A j \in DOMAIN reqs : Len(reqs[j]) <= 50
        /\ Len(flat) = u
        /\ Range(flat) = U
        /\ \A p \in 1..(Len(flat) - 1) :
              FirstPos(ids, flat[p]) < FirstPos(ids, flat[p + 1])
        /\ ~call.chServer.extra =>
              /\ call.res.keys \subseteq U
              /\ Cardinality(call.res.keys) <= u
              /\ U \ call.res.keys \subseteq call.chServer.omit

(* A returned call with duplicates among more than 100 ids, one of them   *)
(* omitted by the remote.                                                  *)
C10_Witness ==
  /\ call.done
  /\ ~call.res.raised
  /\ Len(call.channel_ids) > Cardinality(Range(call.channel_ids))
  /\ Len(call.res.requests) = 3
  /\ ~call.chServer.extra
  /\ Cardinality(call.res.keys) < Cardinality(Range(call.channel_ids))

-----------------------------------------------------------------------------
(* Properties of the refresh orchestration (checked under Spec) *)

HasStamp(file) == file.exists /\ file.rows # <<>>

IsStale(file, t) ==
  \/ ~HasStamp(file)
  \/ t - file.rows[1].scraped_at > 60

RecordCalls == {"videos.list", "search.list", "channels.list"}

(* The step is an access of the tab to a key. *)
TrendingStep == pc = "trending" /\ now' = now /\ acc'.tab = "trending"
CategoryStep == pc = "category" /\ now' = now /\ acc'.key \in Categories
SearchStep == pc = "search" /\ now' = now /\ acc'.key \in Queries

(* C1: an access to the global key or to a category key attempts a        *)
(* refresh exactly when the key has no recorded timestamp or its age is   *)
(* strictly above 60 minutes; otherwise it fetches nothing and leaves the *)
(* files alone.                                                            *)
C1_StalenessGating ==
  [][ /\ TrendingStep => (acc'.attempted <=> IsStale(trendingFile, now))
      /\ CategoryStep => (acc'.attempted <=> IsStale(categoryFile[acc'.key], now))
      /\ ((TrendingStep \/ CategoryStep) /\ ~acc'.attempted) =>
            /\ acc'.calls \cap RecordCalls = {}
            /\ trendingFile' = trendingFile
            /\ categoryFile' = categoryFile ]_vars

(* The global key was accessed at an age of exactly 60 minutes and was    *)
(* not refreshed.                                                          *)
C1_Witness ==
  /\ acc.tab = "trending"
  /\ ~acc.attempted
  /\ HasStamp(trendingFile)
  /\ now - trendingFile.rows[1].scraped_at = 60

(* C2: when the refresh of a durable key that has a stored entry raises,  *)
(* the entry is left as it was and the access shows its records with a    *)
(* warning.                                                                *)
C2_FailedRefreshServesPrevious ==
  [][ /\ (TrendingStep /\ acc'.attempted /\ acc'.kind \notin {"ok", "empty"}
            /\ HasStamp(trendingFile)) =>
            /\ trendingFile' = trendingFile
            /\ acc'.served = fill_country(trendingFile.rows)
            /\ acc'.warning
      /\ (CategoryStep /\ acc'.attempted /\ acc'.kind \notin {"ok", "empty"}
            /\ HasStamp(categoryFile[acc'.key])) =>
            /\ categoryFile' = categoryFile
            /\ acc'.served = fill_country(categoryFile[acc'.key].rows)
            /\ acc'.warning ]_vars

(* C3: a put that raises leaves every durable key with its previous       *)
(* value.                                                                  *)
C3_PutAllOrNothing ==
  [][ (now' = now /\ acc'.attempted /\ acc'.warning) =>
         /\ trendingFile' = trendingFile
         /\ categoryFile' = categoryFile ]_vars

(* C4: after a refresh of a durable key that completed without error the  *)
(* key has a stored timestamp and is not stale.                           *)
C4_CompletedRefreshIsFresh ==
  [][ /\ (TrendingStep /\ acc'.attempted /\ ~acc'.warning) =>
            ~IsStale(trendingFile', now)
      /\ (CategoryStep /\ acc'.attempted /\ ~acc'.warning) =>
            ~IsStale(categoryFile'[acc'.key], now) ]_vars

(* C5: an access to a category key that is Fresh shows the stored records *)
(* and issues no remote call at all.                                      *)
C5_FreshCategoryNoCalls ==
  [][ (CategoryStep /\ ~IsStale(categoryFile[acc'.key], now)) =>
         /\ acc'.calls = {}
         /\ acc'.served = fill_country(categoryFile[acc'.key].rows) ]_vars

C9_RemoteFailureWritesNothing ==
  [][ (now' = now /\ acc'.attempted /\ acc'.kind = "remote") =>
         /\ trendingFile' = trendingFile
         /\ categoryFile' = categoryFile
         /\ session' = session ]_vars

-----------------------------------------------------------------------------
(* The pure functions on their own: one call with drawn arguments.        *)

FirstTable == <<[video_id |-> "v1", channel_id |-> 1, channel_country |-> "CA",
                 scraped_at |-> 0]>>

TagAlphabet == {"a", "|"}

InitTags ==
  \E tags \in SeqsUpTo(Chars(TagAlphabet, MaxTagLen), MaxTags) :
     call = [fn |-> "tags", tags |-> tags, done |-> FALSE,
             tags_str |-> <<>>, display |-> <<>>]

(* The tags written to the video_tags column and the list that            *)
(* format_dataframe_for_display makes of the column.                      *)

CallTags ==
  /\ call.fn = "tags"
  /\ ~call.done
  /\ call' = [call EXCEPT !.done = TRUE,
                          !.tags_str = tags_str(call.tags),
                          !.display = split_tags(tags_str(call.tags))]
  /\ UNCHANGED <<now, trendingFile, categoryFile, loadCache, catCache, session,
                 pc, acc, pending>>

(* A put on a durable key followed by a get: save_to_csv and               *)
(* load_trending_data / get_last_scrape_time for the global key, the       *)
(* table built by tab_by_category, save_category_to_cache and              *)
(* load_category_from_cache for a category key.                            *)

PriorFiles ==
  {NoFile, [exists |-> TRUE, rows |-> <<>>], [exists |-> TRUE, rows |-> FirstTable]}

InitPutGet ==
  \E key \in {"trending", "category"}, prior \in PriorFiles,
     videos \in SeqsUpTo({Vid(v) : v \in VideoIds}, MaxPageItems),
     omit \in {{}, {1}}, t \in {1, 61} :
     \* tab_by_category saves only a table that has rows
     /\ key = "category" => videos # <<>>
     /\ call = [fn |-> "putget", key |-> key, prior |-> prior, videos |-> videos,
                ch |-> [errAt |-> 0, omit |-> omit, extra |-> FALSE, country |-> "CA"],
                t |-> t, done |-> FALSE, written |-> <<>>, rows |-> <<>>,
                scraped_at |-> NoTime]

CallPutGet ==
  /\ call.fn = "putget"
  /\ ~call.done
  /\ LET channel_info == fetch_channels_info(call.ch, channel_ids_of(call.videos))
         cat_df       == fill_country(videos_to_dataframe(call.videos, channel_info).rows)
         file         == IF call.key = "trending"
                         THEN save_to_csv(call.videos, channel_info, call.t).file
                         ELSE save_category_to_cache(cat_df, call.t)
         records      == IF call.key = "trending"
                         THEN [k \in 1..Len(call.videos) |->
                                 video_row(call.videos[k], channel_info)]
                         ELSE cat_df
     IN  call' = [call EXCEPT
                    !.done = TRUE,
                    !.written = [k \in 1..Len(records) |-> Stamp(records[k], call.t)],
                    !.rows = IF call.key = "trending"
                             THEN load_trending_data(file)
                             ELSE load_category_from_cache(file).df,
                    !.scraped_at = IF call.key = "trending"
                                   THEN get_last_scrape_time(file)
                                   ELSE load_category_from_cache(file).scraped_at]
  /\ UNCHANGED <<now, trendingFile, categoryFile, loadCache, catCache, session,
                 pc, acc, pending>>

(* The view and like counts of one raw item.  A value of the statistics   *)
(* object is [has, text]: has = FALSE when the key is absent.              *)

CountAlphabet == {"0", "7", "x"}

RawCounts ==
  {[has |-> FALSE, text |-> <<>>]} \cup
  {[has |-> TRUE, text |-> x] : x \in Chars(CountAlphabet, MaxCountLen)}

(* save_to_csv: view_count = stats.get("viewCount", "") *)
csv_count(raw) == IF raw.has THEN raw.text ELSE <<>>

(* videos_to_dataframe: int(stats.get("viewCount", 0) or 0) *)
df_count(raw) ==
  IF ~raw.has \/ raw.text = <<>> THEN [raised |-> FALSE, value |-> 0]
  ELSE IF IsDecimal(raw.text)
  THEN [raised |-> FALSE, value |-> TextToInt(raw.text, Len(raw.text))]
  ELSE [raised |-> TRUE, value |-> 0]

(* pd.to_numeric(column, errors="coerce").fillna(0).astype(int) *)
to_numeric_int(cell) ==
  IF IsDecimal(cell) THEN TextToInt(cell, Len(cell)) ELSE 0

(* One count through both stores: the cell save_to_csv writes and what    *)
(* load_trending_data makes of it; the value videos_to_dataframe builds,   *)
(* the cell df.to_csv writes and what load_category_from_cache makes of    *)
(* it.                                                                     *)
count_paths(raw) ==
  LET d == df_count(raw)
  IN  [csv_cell   |-> csv_count(raw),
       csv_served |-> to_numeric_int(csv_count(raw)),
       df_raised  |-> d.raised,
       df_value   |-> d.value,
       df_cell    |-> IntToText(d.value),
       df_served  |-> to_numeric_int(IntToText(d.value))]

InitCounts ==
  \E v \in RawCounts, l \in RawCounts :
     call = [fn |-> "counts", viewCount |-> v, likeCount |-> l, done |-> FALSE,
             view |-> count_paths([has |-> FALSE, text |-> <<>>]),
             like |-> count_paths([has |-> FALSE, text |-> <<>>])]

CallCounts ==
  /\ call.fn = "counts"
  /\ ~call.done
  /\ call' = [call EXCEPT !.done = TRUE,
                          !.view = count_paths(call.viewCount),
                          !.like = count_paths(call.likeCount)]
  /\ UNCHANGED <<now, trendingFile, categoryFile, loadCache, catCache, session,
                 pc, acc, pending>>

(* parse_duration.                                                         *)

(* \d+ : the position after the longest run of digits that starts at p *)
RECURSIVE digits_end(_, _)
digits_end(duration, p) ==
  IF p <= Len(duration) /\ IsDigit(duration[p])
  THEN digits_end(duration, p + 1)
  ELSE p

(* (?:(\d+)H)? : the optional component at position p.  The digits are    *)
(* taken greedily; the group takes part only when its letter follows them. *)
group(duration, p, letter) ==
  LET q == digits_end(duration, p)
  IN  IF q > p /\ q <= Len(duration) /\ duration[q] = letter
      THEN [has |-> TRUE, text |-> SubSeq(duration, p, q - 1), next |-> q + 1]
      ELSE [has |-> FALSE, text |-> <<>>, next |-> p]

(* re.match(r'PT(?:(\d+)H)?(?:(\d+)M)?(?:(\d+)S)?', duration): a match of  *)
(* a prefix of the text, which need not reach its end.                     *)
re_match(duration) ==
  IF Len(duration) >= 2 /\ duration[1] = "P" /\ duration[2] = "T"
  THEN LET g1 == group(duration, 3, "H")
           g2 == group(duration, g1.next, "M")
           g3 == group(duration, g2.next, "S")
       IN  [matched |-> TRUE, group1 |-> g1, group2 |-> g2, group3 |-> g3,
            end |-> g3.next - 1]
  ELSE [matched |-> FALSE,
        group1 |-> [has |-> FALSE, text |-> <<>>, next |-> 1],
        group2 |-> [has |-> FALSE, text |-> <<>>, next |-> 1],
        group3 |-> [has |-> FALSE, text |-> <<>>, next |-> 1],
        end |-> 0]

(* int(match.group(i) or 0) *)
group_int(g) == IF g.has THEN TextToInt(g.text, Len(g.text)) ELSE 0

format_unpadded(n) == IntToText(n)

(* f"{n:02d}" *)
format_02d(n) == IF n < 10 THEN <<"0">> \o IntToText(n) ELSE IntToText(n)

parse_duration(duration) ==
  IF duration = <<>> THEN <<>>
  ELSE LET match == re_match(duration)
       IN  IF ~match.matched THEN duration
           ELSE LET hours   == group_int(match.group1)
                    minutes == group_int(match.group2)
                    seconds == group_int(match.group3)
                IN  IF hours > 0
                    THEN IntToText(hours) \o <<":">> \o format_02d(minutes)
                           \o <<":">> \o format_02d(seconds)
                    ELSE IntToText(minutes) \o <<":">> \o format_02d(seconds)

(* The durations given to parse_duration.  A shaped one is written from   *)
(* its components: an optional day count, optional hours, minutes and      *)
(* seconds, each with or without a leading zero, and an optional trailing  *)
(* character.  A free one is any short text over DurationAlphabet.         *)

NoComponent == [has |-> FALSE, n |-> 0, zero |-> FALSE]

Components(max) ==
  {NoComponent} \cup {[has |-> TRUE, n |-> n, zero |-> z] : n \in 0..max, z \in BOOLEAN}

component_text(c, letter) ==
  IF ~c.has THEN <<>>
  ELSE (IF c.zero THEN <<"0">> ELSE <<>>) \o IntToText(c.n) \o <<letter>>

duration_text(days, h, m, s, suffix) ==
  <<"P">> \o component_text(days, "D") \o <<"T">> \o component_text(h, "H")
    \o component_text(m, "M") \o component_text(s, "S") \o suffix

DurationAlphabet == {"P", "T", "H", "M", "S", "D", "1", "x"}

InitDuration ==
  \/ \E days \in {NoComponent, [has |-> TRUE, n |-> 1, zero |-> FALSE]},
        h \in Components(MaxHours), m \in Components(MaxMinutes),
        s \in Components(MaxSeconds), suffix \in {<<>>, <<"x">>} :
        call = [fn |-> "duration", shaped |-> TRUE, days |-> days, hours |-> h,
                minutes |-> m, seconds |-> s, suffix |-> suffix,
                duration |-> duration_text(days, h, m, s, suffix),
                done |-> FALSE, result |-> <<>>]
  \/ \E d \in Chars(DurationAlphabet, MaxDurationLen) :
        call = [fn |-> "duration", shaped |-> FALSE, days |-> NoComponent,
                hours |-> NoComponent, minutes |-> NoComponent,
                seconds |-> NoComponent, suffix |-> <<>>, duration |-> d,
                done |-> FALSE, result |-> <<>>]

CallParseDuration ==
  /\ call.fn = "duration"
  /\ ~call.done
  /\ call' = [call EXCEPT !.done = TRUE, !.result = parse_duration(call.duration)]
  /\ UNCHANGED <<now, trendingFile, categoryFile, loadCache, catCache, session,
                 pc, acc, pending>>

InitFunctions ==
  /\ AppInit
  /\ \/ InitTags
     \/ InitPutGet
     \/ InitCounts
     \/ InitDuration

NextFunctions ==
  \/ CallTags
  \/ CallPutGet
  \/ CallCounts
  \/ CallParseDuration

SpecFunctions == InitFunctions /\ [][NextFunctions]_vars

-----------------------------------------------------------------------------
(* Properties of the tag column (checked under SpecFunctions) *)

NoSeparator(tags) == \A i \in DOMAIN tags : \A j \in DOMAIN tags[i] : tags[i][j] # "|"

(* C11 as stated: every sequence of tags none of which contains "|" comes *)
(* back from the column as it went in; the empty list is written as the   *)
(* empty string, and the empty string is read as the empty list.          *)
C11_TagRoundTrip ==
  /\ tags_str(<<>>) = <<>>
  /\ split_tags(<<>>) = <<>>
  /\ (call.fn = "tags" /\ call.done /\ NoSeparator(call.tags)) =>
        call.display = call.tags

(* C11, amended: the same, except for the list made of one empty tag,     *)
(* which is written as the empty string and read back as the empty list.  *)
C11_TagRoundTripNonEmpty ==
  /\ tags_str(<<>>) = <<>>
  /\ split_tags(<<>>) = <<>>
  /\ (call.fn = "tags" /\ call.done /\ NoSeparator(call.tags)) =>
        IF call.tags = << <<>> >>
        THEN call.tags_str = <<>> /\ call.display = <<>>
        ELSE call.display = call.tags

(* Two tags, the second one empty, came back from the column. *)
C11_Witness ==
  /\ call.fn = "tags"
  /\ call.done
  /\ call.tags = << <<"a">>, <<>> >>
  /\ call.tags_str = <<"a", "|">>
  /\ call.display = call.tags

-----------------------------------------------------------------------------
(* Properties of the search cache *)

(* C12: a search for a query without a session entry whose refresh raises *)
(* leaves the session cache without an entry for that query.              *)
C12_FailedSearchStoresNothing ==
  [][ (SearchStep /\ ~session[acc'.key].present /\ acc'.warning) =>
         ~session'[acc'.key].present ]_vars

-----------------------------------------------------------------------------
(* One session searching for several queries over time.  The session      *)
(* starts after a first script run that stored the trending table, so     *)
(* that the script reaches tab_search; the runs of the other two tabs      *)
(* leave st.session_state alone and are left out.                          *)

SessionQueries == {"cats", "dogs"}

InitSearch ==
  /\ now = 0
  /\ trendingFile = [exists |-> TRUE, rows |-> FirstTable]
  /\ categoryFile = [c \in Categories |-> NoFile]
  /\ loadCache = [valid |-> TRUE, rows |-> FirstTable, at |-> 0]
  /\ catCache = [valid |-> TRUE, map |-> {}, at |-> 0]
  /\ session = [q \in SessionQueries |-> NoEntry]
  /\ pc = "search"
  /\ acc = NoAccess
  /\ pending = {}
  /\ call = [fn |-> "none"]

TabSearchSession ==
  /\ pc = "search"
  /\ \E search_query \in SessionQueries \cup {""} : SearchTab(search_query)
  /\ UNCHANGED <<now, trendingFile, categoryFile, loadCache, catCache, pc, call>>

NextSearch ==
  \/ Tick
  \/ TabSearchSession

SpecSearch == InitSearch /\ [][NextSearch]_vars

(* C13: once the session cache holds an entry for a query, the entry is   *)
(* never replaced, and an access with that query issues no remote call,   *)
(* whatever the clock reads and whatever else was searched.               *)
C13_PopulatedEntryIsKept ==
  [][ /\ \A q \in SessionQueries : session[q].present => session'[q] = session[q]
      /\ (now' = now /\ acc'.key \in SessionQueries /\ session[acc'.key].present) =>
            /\ ~acc'.attempted
            /\ acc'.calls = {}
            /\ acc'.served = session[acc'.key].rows ]_vars

(* Sixty-one minutes into the session, with both queries searched, an     *)
(* access found the entry of a query whose search had returned nothing.   *)
C13_Witness ==
  /\ now = 61
  /\ \A q \in SessionQueries : session[q].present
  /\ acc.key = "cats"
  /\ ~acc.attempted
  /\ session["cats"].rows = <<>>
  /\ session["dogs"].rows # <<>>

-----------------------------------------------------------------------------
(* Script runs over stores that already hold entries: the global file,    *)
(* the files of two categories and the session entries of two queries,    *)
(* each present or not, read at one of the clock readings after the one   *)
(* at which the files were written.                                        *)

StoredFiles == {NoFile, [exists |-> TRUE, rows |-> FirstTable]}

StoredEntries == {NoEntry, [present |-> TRUE, rows |-> <<>>]}

InitKeys ==
  /\ now \in Instants \ {0}
  /\ trendingFile \in StoredFiles
  /\ categoryFile \in [Categories -> StoredFiles]
  /\ loadCache = NoLoadCache
  /\ catCache = NoCatCache
  /\ session \in [SessionQueries -> StoredEntries]
  /\ pc = "trending"
  /\ acc = NoAccess
  /\ pending = {}
  /\ call = [fn |-> "none"]

TabSearchKeys ==
  /\ pc = "search"
  /\ \E search_query \in SessionQueries \cup {""} : SearchTab(search_query)
  /\ pc' = "trending"
  /\ UNCHANGED <<now, trendingFile, categoryFile, loadCache, catCache, call>>

NextKeys ==
  \/ TabTrending
  \/ TabByCategory
  \/ TabSearchKeys

SpecKeys == InitKeys /\ [][NextKeys]_vars

-----------------------------------------------------------------------------
(* Two browser sessions running tab_trending at once.  Streamlit runs     *)
(* the script of each session in a thread of its own; the CSV file and    *)
(* the st.cache_data caches are shared, nothing is locked.  A step is one *)
(* of: the refresh check, the fetch, open(output_path, "w") (which        *)
(* truncates), one row reaching the file at the writer's own offset, and  *)
(* the load of the table.  call.s[i] is the position of session i.        *)

Sessions == {1, 2}

SessionRows == 2

Hole ==
  [video_id |-> NoKey, channel_id |-> 0, channel_country |-> "", scraped_at |-> NoTime]

SessionStart == [pc |-> "check", videos |-> <<>>, stamp |-> NoTime, pos |-> 0, df |-> <<>>]

InitSessions ==
  /\ now = 0
  /\ trendingFile \in {NoFile, [exists |-> TRUE, rows |-> FirstTable]}
  /\ categoryFile = [c \in Categories |-> NoFile]
  /\ loadCache = NoLoadCache
  /\ catCache = NoCatCache
  /\ session = [q \in Queries |-> NoEntry]
  /\ pc = "trending"
  /\ acc = NoAccess
  /\ pending = {}
  /\ call = [fn |-> "sessions", s |-> [i \in Sessions |-> SessionStart]]

At(i, step) == call.fn = "sessions" /\ call.s[i].pc = step

Goto(i, fields) == call' = [call EXCEPT !.s[i] = fields]

(* if should_refresh_data(OUTPUT_CSV, REFRESH_INTERVAL_MINUTES) *)
SessionCheck(i) ==
  /\ At(i, "check")
  /\ Goto(i, [call.s[i] EXCEPT !.pc = IF should_refresh_data(trendingFile, now)
                                       THEN "fetch" ELSE "load"])
  /\ UNCHANGED <<trendingFile, loadCache, catCache, now, categoryFile, session, pc, acc, pending>>

(* fetch_and_save_trending up to save_to_csv: the remote calls *)
SessionFetch(i) ==
  /\ At(i, "fetch")
  /\ \/ Goto(i, [call.s[i] EXCEPT !.pc = "load"])
     \/ \E vs \in [1..SessionRows -> VideoIds] :
          Goto(i, [call.s[i] EXCEPT !.pc = "open",
                                    !.videos = [k \in 1..SessionRows |-> Vid(vs[k])]])
  /\ UNCHANGED <<trendingFile, loadCache, catCache, now, categoryFile, session, pc, acc, pending>>

(* save_to_csv: scraped_at is taken, the file is opened for writing *)
SessionOpen(i) ==
  /\ At(i, "open")
  /\ trendingFile' = [exists |-> TRUE, rows |-> <<>>]
  /\ Goto(i, [call.s[i] EXCEPT !.pc = "write", !.stamp = now, !.pos = 0])
  /\ UNCHANGED <<loadCache, catCache, now, categoryFile, session, pc, acc, pending>>

PutAt(rows, p, row) ==
  [k \in 1..(IF Len(rows) > p THEN Len(rows) ELSE p) |->
     IF k = p THEN row ELSE IF k <= Len(rows) THEN rows[k] ELSE Hole]

(* save_to_csv: the next row reaches the file; after the last one the     *)
(* file is closed and tab_trending clears the caches                       *)
SessionWrite(i) ==
  /\ At(i, "write")
  /\ LET me == call.s[i]
         channel_info ==
           fetch_channels_info([errAt |-> 0, omit |-> {}, extra |-> FALSE, country |-> "CA"],
                               channel_ids_of(me.videos))
     IN  IF me.pos < Len(me.videos)
         THEN /\ trendingFile' =
                   [exists |-> TRUE,
                    rows   |-> PutAt(trendingFile.rows, me.pos + 1,
                                     Stamp(video_row(me.videos[me.pos + 1], channel_info),
                                           me.stamp))]
              /\ Goto(i, [me EXCEPT !.pos = me.pos + 1])
              /\ UNCHANGED <<loadCache, catCache>>
         ELSE /\ loadCache' = NoLoadCache
              /\ catCache' = NoCatCache
              /\ Goto(i, [me EXCEPT !.pc = "load"])
              /\ UNCHANGED trendingFile
  /\ UNCHANGED <<now, categoryFile, session, pc, acc, pending>>

(* df = load_trending_data() *)
SessionLoad(i) ==
  /\ At(i, "load")
  /\ LET hit == loadCache.valid /\ now - loadCache.at < LOAD_TTL_MINUTES
         df  == IF hit THEN loadCache.rows ELSE load_trending_data(trendingFile)
     IN  /\ loadCache' = IF hit THEN loadCache
                         ELSE [valid |-> TRUE, rows |-> df, at |-> now]
         /\ Goto(i, [call.s[i] EXCEPT !.pc = "done", !.df = df])
  /\ UNCHANGED <<trendingFile, catCache, now, categoryFile, session, pc, acc, pending>>

SessionTick ==
  /\ call.fn = "sessions"
  /\ Tick

NextSessions ==
  \/ SessionTick
  \/ \E i \in Sessions : SessionCheck(i)
  \/ \E i \in Sessions : SessionFetch(i)
  \/ \E i \in Sessions : SessionOpen(i)
  \/ \E i \in Sessions : SessionWrite(i)
  \/ \E i \in Sessions : SessionLoad(i)

SpecSessions == InitSessions /\ [][NextSessions]_vars

(* A table that is the whole output of one save_to_csv call. *)
WholePut(df) ==
  /\ Len(df) = SessionRows
  /\ \A k \in 1..Len(df) :
        /\ df[k].video_id \in VideoIds
        /\ df[k].scraped_at # NoTime
        /\ df[k].scraped_at = df[1].scraped_at

(* C14: the table a session loads is never a partly written entry: it is  *)
(* empty (no entry), the table stored before the sessions started, or the *)
(* whole output of one put.                                                *)
C14_ReadersSeeWholeEntries ==
  call.fn = "sessions" =>
    \A i \in Sessions :
       call.s[i].pc = "done" =>
         \/ call.s[i].df = <<>>
         \/ call.s[i].df = FirstTable
         \/ WholePut(call.s[i].df)

(* C15: the two sessions are never both between their staleness check and *)
(* the end of their fetch-and-put.                                         *)
C15_OneRefreshInFlight ==
  call.fn = "sessions" =>
    ~(\A i \in Sessions : call.s[i].pc \in {"fetch", "open", "write"})

-----------------------------------------------------------------------------
(* Properties of the durable store (checked under SpecFunctions) *)

(* C16: whatever the key held before, a get after a put returns the       *)
(* records written, field by field, and the timestamp of the put.         *)
C16_GetReturnsWhatWasPut ==
  (call.fn = "putget" /\ call.done) =>
    /\ call.rows = call.written
    /\ call.scraped_at = call.t

-----------------------------------------------------------------------------
(* Properties of the normalizers *)

(* C17: no refresh is aborted by the shape of a raw item: a refresh whose *)
(* remote calls all return completes without a warning.                   *)
C17_ShapeNeverAborts ==
  [][ (now' = now /\ acc'.attempted /\ acc'.warning) =>
         acc'.kind \in {"config", "categories", "remote"} ]_vars

(* C18: the counts of a record are non-negative integers wherever the     *)
(* record is built, stored or served, and a count that the payload lacks  *)
(* is 0 there, never an empty cell.                                        *)
C18_CountsAreNaturals ==
  (call.fn = "counts" /\ call.done) =>
    \A col \in {"view", "like"} :
       LET raw == IF col = "view" THEN call.viewCount ELSE call.likeCount
           c   == IF col = "view" THEN call.view ELSE call.like
       IN  /\ IsDecimal(c.csv_cell)
           /\ c.csv_served \in Nat
           /\ ~c.df_raised =>
                 /\ c.df_value \in Nat
                 /\ IsDecimal(c.df_cell)
                 /\ c.df_served = c.df_value
           /\ ~raw.has =>
                 /\ c.csv_cell = <<"0">>
                 /\ c.csv_served = 0
                 /\ ~c.df_raised /\ c.df_value = 0

-----------------------------------------------------------------------------
(* Durations *)

(* A text of the form PT#H#M#S, each component optional: after "PT", an   *)
(* optional run of digits closed by H, then one closed by M, then one     *)
(* closed by S, and nothing else.                                          *)
IsComponent(text, letter) ==
  \/ text = <<>>
  \/ /\ Len(text) >= 2
     /\ text[Len(text)] = letter
     /\ \A i \in 1..(Len(text) - 1) : IsDigit(text[i])

WellFormed(duration) ==
  /\ Len(duration) >= 2
  /\ duration[1] = "P" /\ duration[2] = "T"
  /\ \E i \in 2..Len(duration) : \E j \in i..Len(duration) :
        /\ IsComponent(SubSeq(duration, 3, i), "H")
        /\ IsComponent(SubSeq(duration, i + 1, j), "M")
        /\ IsComponent(SubSeq(duration, j + 1, Len(duration)), "S")

TwoDigits(n) == <<Digits[((n \div 10) % 10) + 1], Digits[(n % 10) + 1]>>

(* C19: a duration PT#H#M#S, each component optional, becomes H:MM:SS     *)
(* when its hours are positive and M:SS otherwise, minutes and seconds     *)
(* (below 100) written with two digits; PT4M13S gives 4:13, PT1H2M3S      *)
(* gives 1:02:03, PT45S gives 0:45, and the empty text gives itself.       *)
C19_DurationFormat ==
  (call.fn = "duration" /\ call.done) =>
    /\ call.duration = <<>> => call.result = <<>>
    /\ (call.shaped /\ ~call.days.has /\ call.suffix = <<>>) =>
          /\ WellFormed(call.duration)
          /\ call.result =
               IF call.hours.n > 0
               THEN IntToText(call.hours.n) \o <<":">> \o TwoDigits(call.minutes.n)
                      \o <<":">> \o TwoDigits(call.seconds.n)
               ELSE IntToText(call.minutes.n) \o <<":">> \o TwoDigits(call.seconds.n)
    /\ call.duration = <<"P", "T", "4", "M", "1", "3", "S">> =>
          call.result = <<"4", ":", "1", "3">>
    /\ call.duration = <<"P", "T", "1", "H", "2", "M", "3", "S">> =>
          call.result = <<"1", ":", "0", "2", ":", "0", "3">>
    /\ call.duration = <<"P", "T", "4", "5", "S">> =>
          call.result = <<"0", ":", "4", "5">>

C19_Witness ==
  /\ call.fn = "duration" /\ call.done
  /\ call.duration = <<"P", "T", "1", "H", "2", "M", "3", "S">>
  /\ call.result = <<"1", ":", "0", "2", ":", "0", "3">>

(* C20: a text that is not a well-formed PT#H#M#S duration is returned     *)
(* as it is.                                                               *)
C20_UnparseableIsUnchanged ==
  (call.fn = "duration" /\ call.done /\ ~WellFormed(call.duration)) =>
     call.result = call.duration

-----------------------------------------------------------------------------
(* Further properties of the paginated fetchers (checked under SpecFetch) *)

(* C21: the records returned by one fetch_top_videos or search_videos     *)
(* call have pairwise distinct video ids, whatever the server returns.     *)
C21_IdsDistinctWithinFetch ==
  (call.done /\ ~call.res.raised) =>
    \A i \in 1..Len(call.res.videos) : \A j \in 1..Len(call.res.videos) :
       i # j => call.res.videos[i].id # call.res.videos[j].id

(* C24: in fetch_top_videos every page request asks for                   *)
(* min(page_size, max_results - collected) items and carries the token of *)
(* the response just before it (none on the first request), and a request *)
(* is issued only when collected < max_results and, after the first, the  *)
(* response before it had at least one item and a token.                  *)
C24_RequestsFollowResponses ==
  (call.done /\ call.fn = "fetch_top_videos") =>
    \A i \in 1..Len(call.res.requests) :
       LET collected == Len(ReceivedItems(call.server, i - 1))
       IN  /\ call.res.requests[i].maxResults =
                 Min(call.page_size, call.max_results - collected)
           /\ collected < call.max_results
           /\ i = 1 => call.res.requests[i].pageToken = 0
           /\ i > 1 =>
                 /\ ~Respond(call.server, i - 1).err
                 /\ Respond(call.server, i - 1).items # <<>>
                 /\ Respond(call.server, i - 1).token # 0
                 /\ call.res.requests[i].pageToken = Respond(call.server, i - 1).token

(* A fetch whose second request asked for the remainder, less than a page, *)
(* with the token of the first response.                                   *)
C24_Witness ==
  /\ call.done
  /\ call.fn = "fetch_top_videos"
  /\ ~call.res.raised
  /\ Len(call.res.requests) >= 2
  /\ call.res.requests[2].maxResults < call.page_size
  /\ call.res.requests[2].pageToken = Respond(call.server, 1).token
  /\ call.res.requests[2].pageToken # 0

(* C25: fetch_top_videos and the id-collecting loop of search_videos      *)
(* terminate whatever the remote answers, a token on every response       *)
(* included: every iteration leaves the loop or adds at least one item,   *)
(* no more than max_results requests are issued, and the loop is left in  *)
(* the end.                                                                *)
C25_LoopsTerminate ==
  /\ [][ (call.pc = "while" /\ call'.pc = "while") =>
           Len(call'.items) > Len(call.items) ]_vars
  /\ [](Len(call.requests) <= call.max_results)
  /\ <>(call.pc = "done")

(* A loop that was left after max_results requests although every         *)
(* response carried a token.                                               *)
C25_Witness ==
  /\ call.fn = "loop"
  /\ call.pc = "done"
  /\ ~call.raised
  /\ call.max_results >= 2
  /\ Len(call.requests) = call.max_results
  /\ call.next_page_token # 0
  /\ \A i \in 2..Len(call.requests) : call.requests[i].pageToken # 0

-----------------------------------------------------------------------------
(* Further properties of the durable store *)

OneStamp(rows) ==
  \A k \in 1..Len(rows) :
     rows[k].scraped_at # NoTime /\ rows[k].scraped_at = rows[1].scraped_at

(* C22: in every state each durable key is absent or holds rows that all  *)
(* carry one scraped_at value, the time of the put that wrote them (so a  *)
(* time that is not in the future).                                        *)
C22_EntryHasOneStamp ==
  /\ OneStamp(trendingFile.rows)
  /\ trendingFile.rows # <<>> => trendingFile.rows[1].scraped_at <= now
  /\ \A c \in Categories :
        /\ OneStamp(categoryFile[c].rows)
        /\ categoryFile[c].rows # <<>> => categoryFile[c].rows[1].scraped_at <= now

-----------------------------------------------------------------------------
(* Further properties of the refresh orchestration (checked under Spec) *)

(* C23: when every category key has a stored entry and a remote call of   *)
(* a run of tab_by_category fails (the list-categories call included),    *)
(* the run shows the stored records of a category.                         *)
C23_StoredCategoryIsServed ==
  [][ (pc = "category" /\ now' = now /\ acc'.warning
         /\ \A c \in Categories : HasStamp(categoryFile[c])) =>
        \E c \in Categories : acc'.served = fill_country(categoryFile[c].rows) ]_vars

-----------------------------------------------------------------------------
(* Properties of the three caches together (checked under SpecKeys) *)

(* C26: an access to one key, with or without a refresh, successful or    *)
(* failed, leaves the stored entry (rows and scraped_at) of every other   *)
(* key as it was: the global file, the file of every other category and   *)
(* the session entry of every other query.                                 *)
C26_KeysAreIndependent ==
  [][ /\ pc = "trending" =>
            /\ categoryFile' = categoryFile
            /\ session' = session
      /\ pc = "category" =>
            /\ trendingFile' = trendingFile
            /\ session' = session
            /\ \A c \in Categories \ {acc'.key} : categoryFile'[c] = categoryFile[c]
      /\ pc = "search" =>
            /\ trendingFile' = trendingFile
            /\ categoryFile' = categoryFile
            /\ \A q \in SessionQueries \ {acc'.key} : session'[q] = session[q] ]_vars

(* A category was refreshed sixty-one minutes after the files were        *)
(* written, while the other category, the global key and both queries    *)
(* held entries; the other category still has its old rows.               *)
C26_Witness ==
  /\ DOMAIN session = SessionQueries
  /\ acc.tab = "category"
  /\ acc.key = "20"
  /\ acc.attempted
  /\ acc.kind = "ok"
  /\ categoryFile["20"].rows # <<>>
  /\ categoryFile["20"].rows[1].scraped_at = now
  /\ now > REFRESH_INTERVAL_MINUTES
  /\ categoryFile["10"].rows = FirstTable
  /\ trendingFile.rows # <<>>
  /\ \A q \in SessionQueries : session[q].present

====
